---- MODULE Spec2Model ----
(***************************************************************************)
(* A model of gcc/hash-table.h: the open-addressing hash table template   *)
(* hash_table <Descriptor, Allocator> (double hashing over a prime-sized  *)
(* slot array, three slot states, tombstone reuse, expand).               *)
(*                                                                         *)
(* Slot pointers are modelled as indices into m_entries (m_entries + i is *)
(* i) and the null pointer as NULL.  Elements are the addresses of the    *)
(* client's objects; the two sentinel addresses are HTAB_EMPTY_ENTRY and  *)
(* HTAB_DELETED_ENTRY.                                                     *)
(***************************************************************************)
EXTENDS Integers, Sequences, FiniteSets, TLC

(***************************************************************************)
(* Bounds of the model.                                                    *)
(***************************************************************************)
\* Number of distinct elements the client owns and may insert (each once).
NKeys == 7
\* Number of queries (find, find_slot NO_INSERT or for a present element,
\* remove of an absent key, a scan, an iteration) a behaviour may contain.
\* A query changes nothing a later call reads (only m_searches and
\* m_collisions), so a behaviour's queries are placed after its insertions
\* and removals, which are bounded by NKeys.
MaxLookups == 1
\* Number of elements the churn scenario (insertions, then removals, then
\* traverse) inserts.
NChurn == 10

\* Largest hash value a probe is started with, apart from the keys' own
\* hashes: at capacity 7 the values 0..34 give every pair of first index
\* and stride.
MaxHash == 34

\* Largest size hint the constructor is tried with.
MaxHint == 64

(***************************************************************************)
(* Sentinels and pointers.                                                 *)
(***************************************************************************)
HTAB_EMPTY_ENTRY == 0
HTAB_DELETED_ENTRY == 1
NULL == -1

\* enum insert_option
NO_INSERT == "NO_INSERT"
INSERT == "INSERT"

(***************************************************************************)
(* The client's elements: addresses of objects, none of them a sentinel.  *)
(* Under pointer_hash (address >> 3) the hashes are 10, 45, 17, 11, ...:  *)
(* at capacity 7 the first three share the primary index 3, the first two *)
(* also share the stride.                                                  *)
(***************************************************************************)
ElemAddrs == <<80, 360, 136, 88, 96, 192, 368, 640, 104, 248, 112, 304>>
Elems == {ElemAddrs[i] : i \in 1..NKeys}

\* All the objects of the client; the churn scenario inserts the first
\* NChurn of them.
Owned == {ElemAddrs[i] : i \in 1..Len(ElemAddrs)}
ChurnElems == {ElemAddrs[i] : i \in 1..NChurn}

\* Size hints the client constructs the table with.
SizeHints == {4, 40}

\* The smallest size hint above the capacity at which empty () downsizes
\* (1024*1024 / sizeof (PTR), with 8-byte pointers).
LargeHint == (1024 * 1024) \div 8 + 1

\* Every size hint the constructor is tried with.
CtorHints == 0..MaxHint

(***************************************************************************)
(* Element policy: the table is hash_table <pointer_hash <Type> >.         *)
(***************************************************************************)
\* pointer_hash <Type>::hash: (hashval_t) ((intptr_t) candidate >> 3).
Descriptor_hash(candidate) == candidate \div 8

\* pointer_hash <Type>::equal: existing == candidate.
Descriptor_equal(existing, candidate) == existing = candidate

(***************************************************************************)
(* Prime table and index functions (declared extern in hash-table.h).     *)
(***************************************************************************)
\* prime_tab[i].prime, a prefix of the fixed ascending table.
Primes ==
  <<7, 13, 31, 61, 127, 251, 509, 1021, 2039, 4093, 8191, 16381, 32749,
    65521, 131071, 262139, 524287, 1048573>>

prime_tab == [i \in 0..(Len(Primes) - 1) |-> Primes[i + 1]]

\* The index of the smallest table prime that is at least n.
hash_table_higher_prime_index(n) ==
  CHOOSE i \in DOMAIN prime_tab :
    /\ prime_tab[i] >= n
    /\ \A j \in DOMAIN prime_tab : prime_tab[j] >= n => i <= j

\* Primary index: hash modulo the prime of the capacity class.
hash_table_mod1(hash, index) == hash % prime_tab[index]

\* Probe stride, in 1 .. prime - 1.
hash_table_mod2(hash, index) == 1 + (hash % (prime_tab[index] - 2))

(***************************************************************************)
(* The table as a value: the data members of hash_table.                   *)
(***************************************************************************)
IsLive(x) == x # HTAB_EMPTY_ENTRY /\ x # HTAB_DELETED_ENTRY

\* Allocator::data_alloc (xcalloc): count zeroed slots.
data_alloc(count) == [i \in 0..(count - 1) |-> HTAB_EMPTY_ENTRY]

\* hash_table::hash_table (size_t size)
\* The constructor, were it to ask for a prime strictly above the hint.
hash_table_ctor_above_hint(size) ==
  LET size_prime_index == hash_table_higher_prime_index(size + 1)
      nsize == prime_tab[size_prime_index]
  IN [m_entries |-> data_alloc(nsize),
      m_size |-> nsize,
      m_n_elements |-> 0,
      m_n_deleted |-> 0,
      m_searches |-> 0,
      m_collisions |-> 0,
      m_size_prime_index |-> size_prime_index]

hash_table_ctor(size) ==
  LET size_prime_index == hash_table_higher_prime_index(size)
      nsize == prime_tab[size_prime_index]
  IN [m_entries |-> data_alloc(nsize),
      m_size |-> nsize,
      m_n_elements |-> 0,
      m_n_deleted |-> 0,
      m_searches |-> 0,
      m_collisions |-> 0,
      m_size_prime_index |-> size_prime_index]

\* size_t elements () const
elements(t) == t.m_n_elements - t.m_n_deleted

\* The slots of entries in [p, limit) that hold an element.  The scanning
\* loops (expand, empty, the destructor, traverse_noresize, slide) step over
\* every other slot without effect, so they are modelled from one such slot
\* to the next.
LiveSlots(entries, p, limit) ==
  {i \in p..(limit - 1) : IsLive(entries[i])}

MinOf(S) == CHOOSE m \in S : \A n \in S : m <= n
MaxOf(S) == CHOOSE m \in S : \A n \in S : m >= n

\* Faulty variant of NextIndex: the index is not wrapped.
NextIndex_without_wrap(index, hash2, size) == index + hash2

\* index += hash2; if (index >= size) index -= size;
NextIndex(index, hash2, size) ==
  IF index + hash2 >= size THEN index + hash2 - size ELSE index + hash2

(***************************************************************************)
(* find_empty_slot_for_expand: the slot for HASH in a table without        *)
(* deleted entries.  outcome is "ok", "abort" (a deleted entry was met) or *)
(* "hang": the for (;;) loop visits at most m_size distinct indices, so    *)
(* m_size iterations without an exit repeat for ever.                      *)
(***************************************************************************)
RECURSIVE find_empty_slot_for_expand_loop(_, _, _, _)
find_empty_slot_for_expand_loop(t, index, hash2, n) ==
  LET i == NextIndex(index, hash2, t.m_size)
  IN IF t.m_entries[i] = HTAB_EMPTY_ENTRY
       THEN [slot |-> i, outcome |-> "ok"]
     ELSE IF t.m_entries[i] = HTAB_DELETED_ENTRY
       THEN [slot |-> NULL, outcome |-> "abort"]
     ELSE IF n >= t.m_size
       THEN [slot |-> NULL, outcome |-> "hang"]
     ELSE find_empty_slot_for_expand_loop(t, i, hash2, n + 1)

\* Faulty variant of find_empty_slot_for_expand: the slot at the first
\* index is returned whatever it holds.
find_empty_slot_for_expand_no_probe(t, hash) ==
  [slot |-> hash_table_mod1(hash, t.m_size_prime_index), outcome |-> "ok"]

find_empty_slot_for_expand(t, hash) ==
  LET index == hash_table_mod1(hash, t.m_size_prime_index)
  IN IF t.m_entries[index] = HTAB_EMPTY_ENTRY
       THEN [slot |-> index, outcome |-> "ok"]
     ELSE IF t.m_entries[index] = HTAB_DELETED_ENTRY
       THEN [slot |-> NULL, outcome |-> "abort"]
     ELSE find_empty_slot_for_expand_loop(
            t, index, hash_table_mod2(hash, t.m_size_prime_index), 1)

(***************************************************************************)
(* expand: the target capacity, the fresh array, and the re-insertion of   *)
(* every live element of the old array in slot order.                      *)
(***************************************************************************)
\* Faulty variant of expand_resizes: the capacity is never changed.
expand_resizes_never(elts, osize) == FALSE

\* if (elts * 2 > osize || (elts * 8 < osize && osize > 32))
expand_resizes(elts, osize) ==
  elts * 2 > osize \/ (elts * 8 < osize /\ osize > 32)

\* Faulty variant of expand_nindex: the target is the prime for the live
\* count, not for twice the live count.
expand_nindex_for_live_count(t) ==
  IF elements(t) * 2 > t.m_size \/ (elements(t) * 8 < t.m_size /\ t.m_size > 32)
    THEN hash_table_higher_prime_index(elements(t))
    ELSE t.m_size_prime_index

expand_nindex(t) ==
  IF expand_resizes(elements(t), t.m_size)
    THEN hash_table_higher_prime_index(elements(t) * 2)
    ELSE t.m_size_prime_index

expand_nsize(t) ==
  IF expand_resizes(elements(t), t.m_size)
    THEN prime_tab[expand_nindex(t)]
    ELSE t.m_size

\* Faulty variants of expand_fresh: one leaves m_n_deleted as it was, the
\* other leaves m_size_prime_index as it was.
expand_fresh_keeps_deleted(t) ==
  [t EXCEPT !.m_entries = data_alloc(expand_nsize(t)),
            !.m_size = expand_nsize(t),
            !.m_size_prime_index = expand_nindex(t),
            !.m_n_elements = t.m_n_elements - t.m_n_deleted]

expand_fresh_keeps_index(t) ==
  [t EXCEPT !.m_entries = data_alloc(expand_nsize(t)),
            !.m_size = expand_nsize(t),
            !.m_n_elements = t.m_n_elements - t.m_n_deleted,
            !.m_n_deleted = 0]

\* The members as expand sets them before the re-insertion loop.
expand_fresh(t) ==
  [t EXCEPT !.m_entries = data_alloc(expand_nsize(t)),
            !.m_size = expand_nsize(t),
            !.m_size_prime_index = expand_nindex(t),
            !.m_n_elements = t.m_n_elements - t.m_n_deleted,
            !.m_n_deleted = 0]

\* do { x = *p; if (live) *find_empty_slot_for_expand (hash (x)) = x; p++; }
\* while (p < olimit);
RECURSIVE expand_reinsert(_, _, _, _)
expand_reinsert(t, oentries, p, olimit) ==
  IF LiveSlots(oentries, p, olimit) = {}
    THEN [t |-> t, outcome |-> "ok"]
    ELSE LET p1 == MinOf(LiveSlots(oentries, p, olimit))
             x == oentries[p1]
             q == find_empty_slot_for_expand(t, Descriptor_hash(x))
         IN IF q.outcome # "ok"
              THEN [t |-> t, outcome |-> q.outcome]
              ELSE expand_reinsert([t EXCEPT !.m_entries[q.slot] = x],
                                   oentries, p1 + 1, olimit)

expand(t) == expand_reinsert(expand_fresh(t), t.m_entries, 0, t.m_size)

(***************************************************************************)
(* find_with_hash.  entry is the value returned (HTAB_EMPTY_ENTRY when not *)
(* found), t the table with its diagnostic counters advanced.              *)
(***************************************************************************)
\* Faulty variant of find_stops: the probe also ends at a tombstone.
find_stops_at_tombstone(entry, comparable) ==
  \/ entry = HTAB_EMPTY_ENTRY
  \/ entry = HTAB_DELETED_ENTRY
  \/ Descriptor_equal(entry, comparable)

\* entry == HTAB_EMPTY_ENTRY
\*   || (entry != HTAB_DELETED_ENTRY && Descriptor::equal (entry, comparable))
find_stops(entry, comparable) ==
  \/ entry = HTAB_EMPTY_ENTRY
  \/ (entry # HTAB_DELETED_ENTRY /\ Descriptor_equal(entry, comparable))

RECURSIVE find_with_hash_loop(_, _, _, _, _)
find_with_hash_loop(t, comparable, index, hash2, n) ==
  LET t1 == [t EXCEPT !.m_collisions = t.m_collisions + 1]
      i == NextIndex(index, hash2, t.m_size)
      entry == t.m_entries[i]
  IN IF find_stops(entry, comparable)
       THEN [t |-> t1, entry |-> entry, outcome |-> "ok"]
     ELSE IF n >= t.m_size
       THEN [t |-> t1, entry |-> HTAB_EMPTY_ENTRY, outcome |-> "hang"]
     ELSE find_with_hash_loop(t1, comparable, i, hash2, n + 1)

find_with_hash(t, comparable, hash) ==
  LET t1 == [t EXCEPT !.m_searches = t.m_searches + 1]
      index == hash_table_mod1(hash, t.m_size_prime_index)
      entry == t.m_entries[index]
  IN IF find_stops(entry, comparable)
       THEN [t |-> t1, entry |-> entry, outcome |-> "ok"]
     ELSE find_with_hash_loop(
            t1, comparable, index,
            hash_table_mod2(hash, t.m_size_prime_index), 1)

(***************************************************************************)
(* find_slot_with_hash.  slot is the slot returned (NULL for a NO_INSERT   *)
(* miss), expanded tells whether the call ran expand.                      *)
(***************************************************************************)
\* Faulty variants of insert_expands: one never expands, one expands only
\* when every slot is taken, one expands whatever the insert option, one
\* counts the element about to be inserted.
insert_expands_never(t, insert) == FALSE

insert_expands_when_full(t, insert) ==
  insert = INSERT /\ t.m_size * 3 <= t.m_n_elements * 3

insert_expands_on_lookup(t, insert) ==
  t.m_size * 3 <= t.m_n_elements * 4

insert_expands_counting_new(t, insert) ==
  insert = INSERT /\ t.m_size * 3 <= (t.m_n_elements + 1) * 4

\* if (insert == INSERT && m_size * 3 <= m_n_elements * 4)
insert_expands(t, insert) ==
  insert = INSERT /\ t.m_size * 3 <= t.m_n_elements * 4

\* Faulty variant of empty_entry: m_n_elements is also incremented when a
\* tombstone is reused.
empty_entry_recounts(t, index, first_deleted_slot, insert) ==
  IF insert = NO_INSERT
    THEN [t |-> t, slot |-> NULL, outcome |-> "ok"]
  ELSE IF first_deleted_slot # NULL
    THEN [t |-> [t EXCEPT !.m_n_deleted = t.m_n_deleted - 1,
                          !.m_n_elements = t.m_n_elements + 1,
                          !.m_entries[first_deleted_slot] = HTAB_EMPTY_ENTRY],
          slot |-> first_deleted_slot, outcome |-> "ok"]
  ELSE [t |-> [t EXCEPT !.m_n_elements = t.m_n_elements + 1],
        slot |-> index, outcome |-> "ok"]

\* Faulty variant of empty_entry: the tombstone seen on the path is not
\* reused.
empty_entry_ignores_tombstone(t, index, first_deleted_slot, insert) ==
  IF insert = NO_INSERT
    THEN [t |-> t, slot |-> NULL, outcome |-> "ok"]
  ELSE [t |-> [t EXCEPT !.m_n_elements = t.m_n_elements + 1],
        slot |-> index, outcome |-> "ok"]

\* The code at label empty_entry; index is the empty slot the probe ended on.
empty_entry(t, index, first_deleted_slot, insert) ==
  IF insert = NO_INSERT
    THEN [t |-> t, slot |-> NULL, outcome |-> "ok"]
  ELSE IF first_deleted_slot # NULL
    THEN [t |-> [t EXCEPT !.m_n_deleted = t.m_n_deleted - 1,
                          !.m_entries[first_deleted_slot] = HTAB_EMPTY_ENTRY],
          slot |-> first_deleted_slot, outcome |-> "ok"]
  ELSE [t |-> [t EXCEPT !.m_n_elements = t.m_n_elements + 1],
        slot |-> index, outcome |-> "ok"]

RECURSIVE find_slot_with_hash_loop(_, _, _, _, _, _, _)
find_slot_with_hash_loop(t, comparable, index, hash2, first_deleted_slot, insert, n) ==
  LET t1 == [t EXCEPT !.m_collisions = t.m_collisions + 1]
      i == NextIndex(index, hash2, t.m_size)
      entry == t.m_entries[i]
      fds == IF entry = HTAB_DELETED_ENTRY /\ first_deleted_slot = NULL
               THEN i ELSE first_deleted_slot
  IN IF entry = HTAB_EMPTY_ENTRY
       THEN empty_entry(t1, i, first_deleted_slot, insert)
     ELSE IF entry # HTAB_DELETED_ENTRY /\ Descriptor_equal(entry, comparable)
       THEN [t |-> t1, slot |-> i, outcome |-> "ok"]
     ELSE IF n >= t.m_size
       THEN [t |-> t1, slot |-> NULL, outcome |-> "hang"]
     ELSE find_slot_with_hash_loop(t1, comparable, i, hash2, fds, insert,
                                   n + 1)

\* Faulty variant of find_slot_probe: an insertion takes a tombstone at the
\* first index without probing on for the key.
find_slot_probe_takes_first_tombstone(t, comparable, hash, insert) ==
  LET t1 == [t EXCEPT !.m_searches = t.m_searches + 1]
      index == hash_table_mod1(hash, t.m_size_prime_index)
      hash2 == hash_table_mod2(hash, t.m_size_prime_index)
      entry == t.m_entries[index]
  IN IF entry = HTAB_EMPTY_ENTRY
       THEN empty_entry(t1, index, NULL, insert)
     ELSE IF entry = HTAB_DELETED_ENTRY /\ insert = INSERT
       THEN empty_entry(t1, index, index, insert)
     ELSE IF entry # HTAB_DELETED_ENTRY /\ Descriptor_equal(entry, comparable)
       THEN [t |-> t1, slot |-> index, outcome |-> "ok"]
     ELSE find_slot_with_hash_loop(
            t1, comparable, index, hash2,
            IF entry = HTAB_DELETED_ENTRY THEN index ELSE NULL, insert, 1)

\* The probe of find_slot_with_hash, from m_searches++ on.
find_slot_probe(t, comparable, hash, insert) ==
  LET t1 == [t EXCEPT !.m_searches = t.m_searches + 1]
      index == hash_table_mod1(hash, t.m_size_prime_index)
      hash2 == hash_table_mod2(hash, t.m_size_prime_index)
      entry == t.m_entries[index]
  IN IF entry = HTAB_EMPTY_ENTRY
       THEN empty_entry(t1, index, NULL, insert)
     ELSE IF entry # HTAB_DELETED_ENTRY /\ Descriptor_equal(entry, comparable)
       THEN [t |-> t1, slot |-> index, outcome |-> "ok"]
     ELSE find_slot_with_hash_loop(
            t1, comparable, index, hash2,
            IF entry = HTAB_DELETED_ENTRY THEN index ELSE NULL, insert, 1)

find_slot_with_hash(t, comparable, hash, insert) ==
  LET e == IF insert_expands(t, insert)
             THEN expand(t) ELSE [t |-> t, outcome |-> "ok"]
      r == find_slot_probe(e.t, comparable, hash, insert)
  IN IF e.outcome # "ok"
       THEN [t |-> e.t, slot |-> NULL, outcome |-> e.outcome,
             expanded |-> TRUE]
       ELSE [t |-> r.t, slot |-> r.slot, outcome |-> r.outcome,
             expanded |-> insert_expands(t, insert)]

(***************************************************************************)
(* clear_slot, remove_elt_with_hash, empty, the destructor.  removed is    *)
(* the sequence of values Descriptor::remove was called on.                *)
(***************************************************************************)
\* Faulty variant of mark_deleted: the slot is left empty, not a tombstone.
mark_deleted_as_empty(t, slot) ==
  [t EXCEPT !.m_entries[slot] = HTAB_EMPTY_ENTRY,
            !.m_n_deleted = t.m_n_deleted + 1]

\* Faulty variant of mark_deleted: the tombstone is not counted.
mark_deleted_uncounted(t, slot) ==
  [t EXCEPT !.m_entries[slot] = HTAB_DELETED_ENTRY]

\* Descriptor::remove (*slot); *slot = HTAB_DELETED_ENTRY; m_n_deleted++;
mark_deleted(t, slot) ==
  [t EXCEPT !.m_entries[slot] = HTAB_DELETED_ENTRY,
            !.m_n_deleted = t.m_n_deleted + 1]

\* slot < m_entries || slot >= m_entries + size ()
\*   || *slot == HTAB_EMPTY_ENTRY || *slot == HTAB_DELETED_ENTRY
\* Faulty variant of clear_slot_aborts: a tombstone is not rejected.
clear_slot_accepts_tombstone(t, slot) ==
  IF slot < 0 \/ slot >= t.m_size THEN TRUE
  ELSE t.m_entries[slot] = HTAB_EMPTY_ENTRY

clear_slot_aborts(t, slot) ==
  IF slot < 0 \/ slot >= t.m_size THEN TRUE ELSE ~IsLive(t.m_entries[slot])

clear_slot(t, slot) ==
  IF clear_slot_aborts(t, slot)
    THEN [t |-> t, removed |-> <<>>, outcome |-> "abort"]
    ELSE [t |-> mark_deleted(t, slot), removed |-> <<t.m_entries[slot]>>,
          outcome |-> "ok"]

(***************************************************************************)
(* remove_elt_with_hash reads *slot without testing slot.  For an absent   *)
(* key slot is the null pointer and the read is undefined: null_read is    *)
(* what it yields, "trap" (the access faults), "empty" (the word read is   *)
(* HTAB_EMPTY_ENTRY, the call returns) or "other" (any other word:         *)
(* Descriptor::remove is called on it and the store through the null      *)
(* pointer faults).                                                        *)
(***************************************************************************)
NullReads == {"trap", "empty", "other"}

\* Faulty variant of remove_elt_with_hash: the slot is looked up with
\* INSERT, so that the lookup may expand the table.
remove_elt_with_hash_by_insert(t, comparable, hash, null_read) ==
  LET r == find_slot_with_hash(t, comparable, hash, INSERT)
  IN IF r.outcome # "ok" \/ r.slot = NULL
       THEN [t |-> r.t, removed |-> <<>>, stray |-> FALSE,
             outcome |-> r.outcome]
     ELSE IF r.t.m_entries[r.slot] = HTAB_EMPTY_ENTRY
       THEN [t |-> r.t, removed |-> <<>>, stray |-> FALSE, outcome |-> "ok"]
     ELSE [t |-> mark_deleted(r.t, r.slot),
           removed |-> <<r.t.m_entries[r.slot]>>, stray |-> FALSE,
           outcome |-> "ok"]

remove_elt_with_hash(t, comparable, hash, null_read) ==
  LET r == find_slot_with_hash(t, comparable, hash, NO_INSERT)
  IN IF r.outcome # "ok"
       THEN [t |-> r.t, removed |-> <<>>, stray |-> FALSE,
             outcome |-> r.outcome]
     ELSE IF r.slot = NULL
       THEN [t |-> r.t, removed |-> <<>>, stray |-> null_read = "other",
             outcome |-> IF null_read = "empty" THEN "ok" ELSE "fault"]
     ELSE IF r.t.m_entries[r.slot] = HTAB_EMPTY_ENTRY
       THEN [t |-> r.t, removed |-> <<>>, stray |-> FALSE, outcome |-> "ok"]
     ELSE [t |-> mark_deleted(r.t, r.slot),
           removed |-> <<r.t.m_entries[r.slot]>>, stray |-> FALSE,
           outcome |-> "ok"]

\* for (i = size - 1; i >= 0; i--) if (live) Descriptor::remove (entries[i]);
RECURSIVE remove_all(_, _)
remove_all(entries, i) ==
  IF LiveSlots(entries, 0, i + 1) = {} THEN <<>>
  ELSE LET i1 == MaxOf(LiveSlots(entries, 0, i + 1))
       IN <<entries[i1]>> \o remove_all(entries, i1 - 1)

\* sizeof (PTR) on an LP64 host.
SizeofPtr == 8

\* Faulty variant of empty_downsizes: no table is large enough.
empty_never_downsizes(size) == FALSE

\* if (size > 1024*1024 / sizeof (PTR))
empty_downsizes(size) == size > (1024 * 1024) \div SizeofPtr

\* Faulty variant of empty: m_n_deleted is left as it was.
empty_keeps_deleted(t) ==
  [t |-> [t EXCEPT !.m_entries = data_alloc(t.m_size), !.m_n_elements = 0],
   removed |-> remove_all(t.m_entries, t.m_size - 1),
   outcome |-> "ok"]

empty(t) ==
  LET nindex == hash_table_higher_prime_index(1024 \div SizeofPtr)
      nsize == prime_tab[nindex]
      t1 == IF empty_downsizes(t.m_size)
              THEN [t EXCEPT !.m_entries = data_alloc(nsize),
                             !.m_size = nsize,
                             !.m_size_prime_index = nindex]
              ELSE [t EXCEPT !.m_entries = data_alloc(t.m_size)]
  IN [t |-> [t1 EXCEPT !.m_n_deleted = 0, !.m_n_elements = 0],
      removed |-> remove_all(t.m_entries, t.m_size - 1),
      outcome |-> "ok"]

\* Faulty variant of the destructor: its loop starts one slot too low.
dtor_skips_last(t) ==
  [t |-> t, removed |-> remove_all(t.m_entries, t.m_size - 2),
   outcome |-> "ok"]

\* hash_table::~hash_table
dtor(t) ==
  [t |-> t, removed |-> remove_all(t.m_entries, t.m_size - 1),
   outcome |-> "ok"]

(***************************************************************************)
(* traverse_noresize and traverse.  The callback is the client's: it       *)
(* records the element of the slot it is given and returns false on its    *)
(* stop_at-th call (never when stop_at is 0).  seen is the sequence of its *)
(* calls, each with the element it was given and the value it returned.   *)
(***************************************************************************)
\* Faulty variant of traverse_scan: the scan goes on after the callback
\* returned false.
RECURSIVE traverse_scan_no_break(_, _, _, _, _)
traverse_scan_no_break(entries, slot, limit, seen, stop_at) ==
  IF LiveSlots(entries, slot, limit) = {} THEN seen
  ELSE LET slot1 == MinOf(LiveSlots(entries, slot, limit))
           go == Len(seen) + 1 # stop_at
           seen1 == Append(seen, [elem |-> entries[slot1], go |-> go])
       IN traverse_scan_no_break(entries, slot1 + 1, limit, seen1, stop_at)

\* do { x = *slot; if (live) if (! Callback (slot, argument)) break; }
\* while (++slot < limit);
RECURSIVE traverse_scan(_, _, _, _, _)
traverse_scan(entries, slot, limit, seen, stop_at) ==
  IF LiveSlots(entries, slot, limit) = {} THEN seen
  ELSE LET slot1 == MinOf(LiveSlots(entries, slot, limit))
           go == Len(seen) + 1 # stop_at
           seen1 == Append(seen, [elem |-> entries[slot1], go |-> go])
       IN IF ~go THEN seen1
          ELSE traverse_scan(entries, slot1 + 1, limit, seen1, stop_at)

traverse_noresize(t, stop_at) ==
  traverse_scan(t.m_entries, 0, t.m_size, <<>>, stop_at)

\* Faulty variants of traverse_expands: one has no capacity floor, for the
\* other the table must be emptier still.
traverse_expands_no_floor(t) == elements(t) * 8 < t.m_size

traverse_expands_below_32nd(t) == elements(t) * 32 < t.m_size /\ t.m_size > 32

\* if (elements () * 8 < size && size > 32)
traverse_expands(t) == elements(t) * 8 < t.m_size /\ t.m_size > 32

traverse(t, stop_at) ==
  LET e == IF traverse_expands(t)
             THEN expand(t) ELSE [t |-> t, outcome |-> "ok"]
  IN [t |-> e.t,
      seen |-> IF e.outcome = "ok"
                 THEN traverse_noresize(e.t, stop_at) ELSE <<>>,
      outcome |-> e.outcome,
      expanded |-> traverse_expands(t)]

(***************************************************************************)
(* hash_table::iterator: the pair (m_slot, m_limit).                       *)
(***************************************************************************)
\* iterator () : m_slot (NULL), m_limit (NULL)
iterator_default == [m_slot |-> NULL, m_limit |-> NULL]

\* Faulty variant of slide: it stops at a tombstone as at an element.
slide_to_nonempty(entries, it) ==
  LET S == {i \in it.m_slot..(it.m_limit - 1) : entries[i] # HTAB_EMPTY_ENTRY}
  IN IF S # {} THEN [it EXCEPT !.m_slot = MinOf(S)] ELSE iterator_default

\* for ( ; m_slot < m_limit; ++m_slot ) if (live) return;
\* m_slot = NULL; m_limit = NULL;
slide(entries, it) ==
  IF LiveSlots(entries, it.m_slot, it.m_limit) # {}
    THEN [it EXCEPT !.m_slot = MinOf(LiveSlots(entries, it.m_slot, it.m_limit))]
    ELSE iterator_default

\* begin (), were it to return the first slot without sliding to an element.
begin_without_slide(t) == [m_slot |-> 0, m_limit |-> t.m_size]

\* iterator begin () const
begin(t) == slide(t.m_entries, [m_slot |-> 0, m_limit |-> t.m_size])

\* iterator end () const
end == iterator_default

\* iterator::operator ++
iterator_incr(entries, it) ==
  slide(entries, [it EXCEPT !.m_slot = it.m_slot + 1])

\* iterator::operator !=
iterator_neq(a, b) == a.m_slot # b.m_slot \/ a.m_limit # b.m_limit

(***************************************************************************)
(* The state: one table, its client and one iterator.                      *)
(***************************************************************************)
VARIABLES
  m_entries,            \* the slot array
  m_size,               \* its capacity
  m_n_elements,         \* elements, deleted ones included
  m_n_deleted,          \* deleted elements
  m_searches,           \* diagnostic: calls of find / find_slot
  m_collisions,         \* diagnostic: probe steps
  m_size_prime_index,   \* the capacity as an index into prime_tab
  hint,                 \* the size the constructor was called with
  fate,                 \* "running", "aborted", "faulted", "hung", "destroyed"
  reserved,             \* the slot find_slot_with_hash (INSERT) returned and
                        \* the client has not written yet, or NULL
  pending,              \* the element the client is inserting
  last,                 \* the last operation
  ret,                  \* what it returned (an entry or a slot), or the
                        \* handle clear_slot was given, else NULL
  expanded,             \* whether it ran expand
  cb_seen,              \* the calls of its callback: element, value returned
  life,                 \* per element: "new", "in" (deposited), "out"
  remove_calls,         \* per element: calls of Descriptor::remove on it
  stray_remove,         \* Descriptor::remove was called on a non-element
  inserts,              \* deposits of new elements since ctor / empty ()
  removes,              \* elements removed since ctor / empty ()
  lookups,              \* pure lookups made so far
  iter,                 \* the client's iterator
  iterating,            \* an iteration is under way
  visited               \* the elements it dereferenced

tvars == <<m_entries, m_size, m_n_elements, m_n_deleted, m_searches,
           m_collisions, m_size_prime_index>>
ivars == <<iter, iterating, visited>>
vars == <<m_entries, m_size, m_n_elements, m_n_deleted, m_searches,
          m_collisions, m_size_prime_index, hint, fate, reserved,
          pending, last, ret, expanded, cb_seen, life, remove_calls,
          stray_remove, inserts, removes, lookups, iter, iterating, visited>>

\* The table of the current state as a value.
Table ==
  [m_entries |-> m_entries,
   m_size |-> m_size,
   m_n_elements |-> m_n_elements,
   m_n_deleted |-> m_n_deleted,
   m_searches |-> m_searches,
   m_collisions |-> m_collisions,
   m_size_prime_index |-> m_size_prime_index]

SetTable(t) ==
  /\ m_entries' = t.m_entries
  /\ m_size' = t.m_size
  /\ m_n_elements' = t.m_n_elements
  /\ m_n_deleted' = t.m_n_deleted
  /\ m_searches' = t.m_searches
  /\ m_collisions' = t.m_collisions
  /\ m_size_prime_index' = t.m_size_prime_index

\* How a call that does not return ends the process.
FateOf(outcome) ==
  CASE outcome = "ok" -> "running"
    [] outcome = "abort" -> "aborted"
    [] outcome = "fault" -> "faulted"
    [] OTHER -> "hung"

Count(seq, x) == Cardinality({i \in 1..Len(seq) : seq[i] = x})

\* Descriptor::remove was called on each value of removed, in turn.
Released(removed) ==
  /\ remove_calls' =
       [x \in Owned |-> remove_calls[x] + Count(removed, x)]
  /\ life' = [x \in Owned |-> IF Count(removed, x) > 0 THEN "out" ELSE life[x]]
  /\ removes' = removes + Len(removed)

\* The client may call the table: it runs, holds no unwritten slot and is
\* not iterating.
Idle == fate = "running" /\ reserved = NULL /\ ~iterating

\* The client may insert and remove.
Mutable == Idle /\ lookups = 0

\* The client may query.
Queryable == Idle /\ lookups < MaxLookups

Constructed(size) ==
  /\ LET t == hash_table_ctor(size)
     IN /\ hint = size
        /\ m_entries = t.m_entries
        /\ m_size = t.m_size
        /\ m_n_elements = t.m_n_elements
        /\ m_n_deleted = t.m_n_deleted
        /\ m_searches = t.m_searches
        /\ m_collisions = t.m_collisions
        /\ m_size_prime_index = t.m_size_prime_index
  /\ fate = "running"
  /\ reserved = NULL
  /\ pending = HTAB_EMPTY_ENTRY
  /\ last = "ctor"
  /\ ret = NULL
  /\ expanded = FALSE
  /\ cb_seen = <<>>
  /\ life = [x \in Owned |-> "new"]
  /\ remove_calls = [x \in Owned |-> 0]
  /\ stray_remove = FALSE
  /\ inserts = 0
  /\ removes = 0
  /\ lookups = 0
  /\ iter = iterator_default
  /\ iterating = FALSE
  /\ visited = <<>>

\* A table constructed with one of the size hints the clients use.
Init == \E size \in SizeHints : Constructed(size)

\* A table constructed with any size hint up to MaxHint.
InitCtor == \E size \in CtorHints : Constructed(size)

(***************************************************************************)
(* Insertion: find_slot_with_hash (x, hash (x), INSERT), then the client   *)
(* writes x into the slot returned.                                        *)
(***************************************************************************)
FindSlotInsertCall(x) ==
  LET r == find_slot_with_hash(Table, x, Descriptor_hash(x), INSERT)
  IN /\ SetTable(r.t)
     /\ fate' = FateOf(r.outcome)
     /\ reserved' = r.slot
     /\ pending' = IF r.outcome = "ok" THEN x ELSE HTAB_EMPTY_ENTRY
     /\ last' = "find_slot_insert"
     /\ ret' = r.slot
     /\ expanded' = r.expanded
     /\ cb_seen' = <<>>
     /\ UNCHANGED <<hint, life, remove_calls, stray_remove, inserts,
                    removes, iter, iterating, visited>>

\* x is the next element the client has not inserted yet: the client
\* inserts its elements in the order of ElemAddrs, each once.
NextNew(x) ==
  \E i \in 1..NKeys :
    /\ x = ElemAddrs[i]
    /\ life[x] = "new"
    /\ \A j \in 1..(i - 1) : life[ElemAddrs[j]] # "new"

\* x is not in the table.
InsertNew(x) ==
  /\ Mutable
  /\ NextNew(x)
  /\ FindSlotInsertCall(x)
  /\ UNCHANGED lookups

\* x is in the table already: the call returns its slot.
InsertPresent(x) ==
  /\ Queryable
  /\ life[x] = "in"
  /\ FindSlotInsertCall(x)
  /\ lookups' = lookups + 1

\* *slot = x, unless the slot returned holds the element already.
Deposit ==
  /\ fate = "running"
  /\ reserved # NULL
  /\ IF m_entries[reserved] = HTAB_EMPTY_ENTRY
       THEN /\ m_entries' = [m_entries EXCEPT ![reserved] = pending]
            /\ life' = [life EXCEPT ![pending] = "in"]
            /\ inserts' = inserts + 1
       ELSE UNCHANGED <<hint, m_entries, life, inserts>>
  /\ reserved' = NULL
  /\ pending' = HTAB_EMPTY_ENTRY
  /\ last' = "deposit"
  /\ ret' = NULL
  /\ expanded' = FALSE
  /\ cb_seen' = <<>>
  /\ UNCHANGED <<hint, m_size, m_n_elements, m_n_deleted, m_searches, m_collisions,
                 m_size_prime_index, fate, remove_calls,
                 stray_remove, removes, lookups, iter, iterating, visited>>

(***************************************************************************)
(* Lookups.                                                                *)
(***************************************************************************)
\* find_with_hash, the last call of a behaviour.
Find(x) ==
  /\ Queryable
  /\ LET r == find_with_hash(Table, x, Descriptor_hash(x))
     IN /\ SetTable(r.t)
        /\ fate' = FateOf(r.outcome)
        /\ ret' = r.entry
  /\ last' = "find"
  /\ expanded' = FALSE
  /\ cb_seen' = <<>>
  /\ lookups' = MaxLookups
  /\ UNCHANGED <<hint, reserved, pending, life, remove_calls,
                 stray_remove, inserts, removes, iter, iterating, visited>>

FindSlotNoInsertCall(x) ==
  /\ LET r == find_slot_with_hash(Table, x, Descriptor_hash(x), NO_INSERT)
     IN /\ SetTable(r.t)
        /\ fate' = FateOf(r.outcome)
        /\ ret' = r.slot
        /\ expanded' = r.expanded
  /\ last' = "find_slot"
  /\ cb_seen' = <<>>
  /\ UNCHANGED <<hint, reserved, pending, life, remove_calls,
                 stray_remove, inserts, removes, iter, iterating, visited>>

\* find_slot_with_hash (NO_INSERT), one of the queries of a behaviour.
FindSlotNoInsert(x) ==
  /\ Queryable
  /\ FindSlotNoInsertCall(x)
  /\ lookups' = lookups + 1

\* find_slot_with_hash (NO_INSERT), the last call of a behaviour.
FindSlotLast(x) ==
  /\ Queryable
  /\ FindSlotNoInsertCall(x)
  /\ lookups' = MaxLookups

(***************************************************************************)
(* Removal.                                                                *)
(***************************************************************************)
RemoveCall(x, null_read) ==
  LET r == remove_elt_with_hash(Table, x, Descriptor_hash(x), null_read)
  IN /\ SetTable(r.t)
     /\ fate' = FateOf(r.outcome)
     /\ Released(r.removed)
     /\ stray_remove' = (stray_remove \/ r.stray)
     /\ last' = "remove_elt"
     /\ ret' = NULL
     /\ expanded' = FALSE
     /\ cb_seen' = <<>>
     /\ UNCHANGED <<hint, reserved, pending, inserts, iter, iterating,
                    visited>>

\* remove_elt_with_hash for an element of the table.
RemoveElt(x) ==
  /\ Mutable
  /\ life[x] = "in"
  /\ RemoveCall(x, "trap")
  /\ UNCHANGED lookups

\* remove_elt_with_hash for a key with no matching element.
RemoveAbsent(x) ==
  /\ Queryable
  /\ life[x] # "in"
  /\ \E null_read \in NullReads : RemoveCall(x, null_read)
  /\ lookups' = lookups + 1

\* The handle is a slot of the array and the slot holds an element.
HoldsElement(slot) ==
  IF slot \in 0..(m_size - 1) THEN IsLive(m_entries[slot]) ELSE FALSE

\* clear_slot on the slot the preceding find_slot_with_hash (NO_INSERT)
\* returned, or, in place of a query, on a handle that holds no element
\* (null, out of the array, a vacant slot).  The lookup and the clear_slot
\* of its slot are together a removal, not a query.
ClearSlot(slot) ==
  /\ Idle
  /\ IF last = "find_slot" /\ slot = ret
       THEN TRUE
       ELSE lookups = 0 /\ ~HoldsElement(slot)
  /\ lookups' = IF HoldsElement(slot) THEN lookups - 1 ELSE lookups
  /\ LET r == clear_slot(Table, slot)
     IN /\ SetTable(r.t)
        /\ fate' = FateOf(r.outcome)
        /\ Released(r.removed)
  /\ last' = "clear_slot"
  /\ ret' = slot
  /\ expanded' = FALSE
  /\ cb_seen' = <<>>
  /\ UNCHANGED <<hint, reserved, pending, stray_remove, inserts, iter,
                 iterating, visited>>

Empty ==
  /\ Mutable
  /\ LET r == empty(Table)
     IN /\ SetTable(r.t)
        /\ remove_calls' =
             [x \in Owned |-> remove_calls[x] + Count(r.removed, x)]
        /\ life' = [x \in Owned |->
                      IF Count(r.removed, x) > 0 THEN "out" ELSE life[x]]
  /\ inserts' = 0
  /\ removes' = 0
  /\ last' = "empty"
  /\ ret' = NULL
  /\ expanded' = FALSE
  /\ cb_seen' = <<>>
  /\ UNCHANGED <<hint, fate, reserved, pending, stray_remove, lookups,
                 iter, iterating, visited>>

Destroy ==
  /\ Idle
  /\ LET r == dtor(Table)
     IN Released(r.removed)
  /\ fate' = "destroyed"
  /\ last' = "dtor"
  /\ ret' = NULL
  /\ expanded' = FALSE
  /\ cb_seen' = <<>>
  /\ UNCHANGED <<hint, tvars, reserved, pending, stray_remove, inserts,
                 lookups, iter, iterating, visited>>

(***************************************************************************)
(* Traversal.                                                              *)
(***************************************************************************)
TraverseCall(stop_at) ==
  /\ LET r == traverse(Table, stop_at)
     IN /\ SetTable(r.t)
        /\ fate' = FateOf(r.outcome)
        /\ expanded' = r.expanded
        /\ cb_seen' = r.seen
  /\ last' = "traverse"
  /\ ret' = NULL
  /\ UNCHANGED <<hint, reserved, pending, life, remove_calls,
                 stray_remove, inserts, removes, iter, iterating, visited>>

\* traverse among the insertions and removals.
Traverse(stop_at) ==
  /\ Mutable
  /\ TraverseCall(stop_at)
  /\ UNCHANGED lookups

\* traverse as the last call of a behaviour.
TraverseLast(stop_at) ==
  /\ Queryable
  /\ TraverseCall(stop_at)
  /\ lookups' = MaxLookups

\* traverse_noresize, the last call of a behaviour.
TraverseNoresize(stop_at) ==
  /\ Queryable
  /\ lookups' = MaxLookups
  /\ cb_seen' = traverse_noresize(Table, stop_at)
  /\ last' = "traverse_noresize"
  /\ ret' = NULL
  /\ expanded' = FALSE
  /\ UNCHANGED <<hint, tvars, fate, reserved, pending, life,
                 remove_calls, stray_remove, inserts, removes, iter, iterating,
                 visited>>

(***************************************************************************)
(* Iteration: for (iter = begin (); iter != end (); ++iter) with the       *)
(* element read in the body; the client does not call the table while it  *)
(* iterates.                                                               *)
(***************************************************************************)
IterBegin ==
  /\ Queryable
  /\ lookups' = lookups + 1
  /\ iter' = begin(Table)
  /\ iterating' = TRUE
  /\ visited' = <<>>
  /\ last' = "begin"
  /\ ret' = NULL
  /\ expanded' = FALSE
  /\ cb_seen' = <<>>
  /\ UNCHANGED <<hint, tvars, fate, reserved, pending, life,
                 remove_calls, stray_remove, inserts, removes>>

\* The loop body and ++iter.
IterNext ==
  /\ fate = "running"
  /\ iterating
  /\ iterator_neq(iter, end)
  /\ visited' = Append(visited, m_entries[iter.m_slot])
  /\ iter' = iterator_incr(m_entries, iter)
  /\ last' = "incr"
  /\ UNCHANGED <<hint, tvars, fate, reserved, pending, ret, expanded,
                 cb_seen, life, remove_calls, stray_remove, inserts, removes,
                 lookups, iterating>>

\* iter != end () is false: the loop is left.
IterEnd ==
  /\ fate = "running"
  /\ iterating
  /\ ~iterator_neq(iter, end)
  /\ iterating' = FALSE
  /\ visited' = <<>>
  /\ last' = "end"
  /\ UNCHANGED <<hint, tvars, fate, reserved, pending, ret, expanded,
                 cb_seen, life, remove_calls, stray_remove, inserts, removes,
                 lookups, iter>>

(***************************************************************************)
(* The specifications.  Insertion and removal are common to all; each      *)
(* adds the operations its properties are about.                           *)
(***************************************************************************)
\* The slot handles a client passes to clear_slot: the slot its lookup
\* returned, the null pointer, the end of the array, and every slot.
SlotHandles == (-1)..m_size

Mutate ==
  \/ \E x \in Elems : InsertNew(x)
  \/ Deposit
  \/ \E x \in Elems : RemoveElt(x)

\* Insertion, removal and the traversal that may resize.
Next ==
  \/ Mutate
  \/ Traverse(0)

Spec == Init /\ [][Next]_vars

\* Insertion, removal, clearing and destruction.
NextLife ==
  \/ Mutate
  \/ Empty
  \/ Destroy

SpecLife == Init /\ [][NextLife]_vars

\* Removal of keys that are not in the table.
NextAbsent ==
  \/ Mutate
  \/ \E x \in Elems : RemoveAbsent(x)

SpecAbsent == Init /\ [][NextAbsent]_vars

\* Iteration.
NextIter ==
  \/ Mutate
  \/ IterBegin
  \/ IterNext
  \/ IterEnd

SpecIter == Init /\ [][NextIter]_vars

\* Removal through find_slot_with_hash (NO_INSERT) and clear_slot.
NextRemove ==
  \/ Mutate
  \/ \E x \in Elems : life[x] = "in" /\ FindSlotNoInsert(x)
  \/ \E slot \in SlotHandles : ClearSlot(slot)

SpecRemove == Init /\ [][NextRemove]_vars

\* The churn scenario: the first NChurn elements are inserted in turn, then
\* elements are removed, and traverse is called at any point.
ChurnInsert(x) ==
  /\ Mutable
  /\ removes = 0
  /\ \E i \in 1..NChurn :
       /\ x = ElemAddrs[i]
       /\ life[x] = "new"
       /\ \A j \in 1..(i - 1) : life[ElemAddrs[j]] # "new"
  /\ FindSlotInsertCall(x)
  /\ UNCHANGED lookups

ChurnRemove(x) ==
  /\ last # "traverse"
  /\ RemoveElt(x)

NextChurn ==
  \/ \E x \in ChurnElems : ChurnInsert(x)
  \/ Deposit
  \/ \E x \in ChurnElems : ChurnRemove(x)
  \/ last # "traverse" /\ Traverse(0)

SpecChurn == Init /\ [][NextChurn]_vars

\* Lookups.
NextLookup ==
  \/ Mutate
  \/ \E x \in Elems : Find(x)
  \/ \E x \in Elems : FindSlotLast(x)

SpecLookup == Init /\ [][NextLookup]_vars

\* find_slot_with_hash (INSERT) for elements the table holds.
NextReinsert ==
  \/ Mutate
  \/ \E x \in Elems : InsertPresent(x)

SpecReinsert == Init /\ [][NextReinsert]_vars

\* A table constructed with any size hint, then looked up in or inserted
\* into.
NextCtor ==
  \/ \E x \in Elems : Find(x)
  \/ \E x \in Elems : InsertNew(x)
  \/ Deposit

SpecCtor == InitCtor /\ [][NextCtor]_vars

\* Insertions and removals, and a lookup of a key that is never inserted.
NextProbe ==
  \/ Mutate
  \/ Find(ElemAddrs[Len(ElemAddrs)])

SpecProbe == Init /\ [][NextProbe]_vars

\* Every operation that writes a slot or a counter: insertion, removal by
\* key and by slot, empty () and traverse.
NextCount ==
  \/ Mutate
  \/ \E x \in Elems : Mutable /\ life[x] = "in" /\ FindSlotNoInsert(x)
  \/ last = "find_slot" /\ ClearSlot(ret)
  \/ Empty
  \/ TraverseLast(0)

SpecCount == Init /\ [][NextCount]_vars

\* Callback scans.
NextScan ==
  \/ Mutate
  \/ \E stop_at \in 0..NKeys : TraverseLast(stop_at)
  \/ \E stop_at \in 0..NKeys : TraverseNoresize(stop_at)

SpecScan == Init /\ [][NextScan]_vars

(***************************************************************************)
(* The properties.                                                         *)
(***************************************************************************)
\* find_with_hash returns x / returns the empty value for x.
Found(t, x) ==
  LET r == find_with_hash(t, x, Descriptor_hash(x))
  IN r.outcome = "ok" /\ r.entry = x

NotFound(t, x) ==
  LET r == find_with_hash(t, x, Descriptor_hash(x))
  IN r.outcome = "ok" /\ r.entry = HTAB_EMPTY_ENTRY

\* The probe for x does not end at the first slot it tries.
Collides(t, x) ==
  find_with_hash(t, x, Descriptor_hash(x)).t.m_collisions > t.m_collisions

\* Between two operations of the client: the table runs and every slot an
\* insertion reserved has been written.
Settled == fate = "running" /\ reserved = NULL

\* find_slot_with_hash (INSERT) has just reserved a slot for a new element.
Reserving ==
  fate = "running" /\ last = "find_slot_insert" /\ reserved # NULL

\* No element has left the table so far.
NoRemovals == removes = 0 /\ \A x \in Elems : life[x] # "out"

\* C1: between operations, every element that was deposited and has not
\* been removed since is returned by find_with_hash for its key, whatever
\* collisions, tombstones and resizes the table went through.
C1_InsertedKeysFound ==
  Settled => \A x \in Elems : life[x] = "in" => Found(Table, x)

\* A grown table with a tombstone, in which finding a live element takes
\* more than one probe.
C1_Witness ==
  /\ Settled
  /\ hint = 4
  /\ m_size = 13
  /\ m_n_deleted > 0
  /\ \E x \in Elems : life[x] = "in" /\ Collides(Table, x) /\ Found(Table, x)

\* C2: once remove_elt_with_hash or clear_slot has removed an element,
\* find_with_hash for it returns the empty value, and every other element
\* of the table, inserted before or after the removal, is still returned.
C2_RemovedKeyNotFound ==
  Settled =>
    \A k \in Elems :
      life[k] = "out" =>
        /\ NotFound(Table, k)
        /\ \A x \in Elems \ {k} : life[x] = "in" => Found(Table, x)

\* clear_slot has just removed an element, not the first to go, and a live
\* element is found past the first slot probed.
C2_Witness ==
  /\ Settled
  /\ last = "clear_slot"
  /\ removes >= 2
  /\ \E k \in Elems : life[k] = "out" /\ NotFound(Table, k)
  /\ \E x \in Elems : life[x] = "in" /\ Collides(Table, x) /\ Found(Table, x)

\* C3: remove_elt_with_hash for a key with no matching element does
\* nothing: it returns normally, Descriptor::remove is not called, and the
\* slots, the capacity and the counts are as before.
C3_RemoveAbsentDoesNothing ==
  [][(\E x \in Elems : RemoveAbsent(x)) =>
       /\ fate' = "running"
       /\ stray_remove' = stray_remove
       /\ remove_calls' = remove_calls
       /\ m_entries' = m_entries
       /\ m_size' = m_size
       /\ m_n_elements' = m_n_elements
       /\ m_n_deleted' = m_n_deleted]_vars

C5_ExpandKeepsKeysPurgesTombstones ==
  [][expanded' =>
       /\ \A x \in Elems : Found(Table, x) => Found(Table', x)
       /\ m_n_deleted' = 0
       /\ \A i \in DOMAIN m_entries' : m_entries'[i] # HTAB_DELETED_ENTRY]_vars

\* An insertion has expanded a table of capacity 7 into one of capacity 7:
\* the tombstones were purged in place, the elements kept.
C5_Witness ==
  /\ fate = "running"
  /\ expanded
  /\ last = "find_slot_insert"
  /\ hint = 4
  /\ m_size = 7
  /\ m_n_deleted = 0
  /\ \E x \in Elems : life[x] = "in" /\ Found(Table, x)

\* The elements the slots of the table hold.
LiveElems == {m_entries[i] : i \in LiveSlots(m_entries, 0, m_size)}

\* C6: an iteration from begin () to end () over a table that is not
\* modified dereferences elements only, never an empty slot or a
\* tombstone, none of them twice, and when it reaches end () it has
\* dereferenced each of the elements () elements of the table.
C6_IterationVisitsLiveOnce ==
  iterating =>
    /\ \A i \in 1..Len(visited) : IsLive(visited[i])
    /\ \A i, j \in 1..Len(visited) : visited[i] = visited[j] => i = j
    /\ ~iterator_neq(iter, end) =>
         /\ Len(visited) = elements(Table)
         /\ {visited[i] : i \in 1..Len(visited)} = LiveElems

\* An iteration has reached end () in a table with empty slots, tombstones
\* and three elements or more.
C6_Witness ==
  /\ iterating
  /\ ~iterator_neq(iter, end)
  /\ Len(visited) >= 3
  /\ m_n_deleted >= 2
  /\ m_n_elements < m_size

C9_LoadAtMostThreeQuarters ==
  (Reserving /\ NoRemovals) => m_n_elements * 4 <= m_size * 3

\* C9, amended: when find_slot_with_hash (INSERT) has reserved its slot, in
\* a run with no removal, m_n_elements without the slot just reserved is at
\* most 3/4 of m_size.
C9_LoadBeforeReservingAtMostThreeQuarters ==
  (Reserving /\ NoRemovals) => (m_n_elements - 1) * 4 <= m_size * 3

\* The sixth slot of a table of capacity 7 has been reserved.
C9_Witness ==
  /\ Reserving
  /\ NoRemovals
  /\ ~expanded
  /\ m_size = 7
  /\ m_n_elements = 6

\* The elements deposited are all found.
AllFound == \A x \in Elems : life[x] = "in" => Found(Table, x)

\* C10, as stated: in a table constructed with size 4 (capacity 7) holding
\* 5 elements, the sixth insertion expands before it completes, and
\* afterwards the 6 elements are found at a prime capacity above 7.
C10_SixthInsertExpands ==
  /\ (hint = 4 /\ NoRemovals /\ Settled /\ inserts <= 5) => m_size = 7
  /\ (hint = 4 /\ NoRemovals /\ Reserving /\ inserts = 5) =>
       (expanded /\ m_size > 7)
  /\ (hint = 4 /\ NoRemovals /\ Settled /\ inserts = 6) =>
       /\ AllFound
       /\ m_size > 7
       /\ \E i \in DOMAIN prime_tab : m_size = prime_tab[i]

\* C10, amended: in a table constructed with size 4 (capacity 7) holding 5
\* elements, the sixth insertion does not expand and leaves 6 elements
\* found at capacity 7; the seventh insertion expands before it completes,
\* and afterwards the 7 elements are found at a prime capacity above 7.
C10_SeventhInsertExpands ==
  /\ (hint = 4 /\ NoRemovals /\ Settled /\ inserts <= 6) =>
       (m_size = 7 /\ AllFound)
  /\ (hint = 4 /\ NoRemovals /\ Reserving /\ inserts <= 5) =>
       (~expanded /\ m_size = 7)
  /\ (hint = 4 /\ NoRemovals /\ Reserving /\ inserts = 6) =>
       (expanded /\ m_size > 7)
  /\ (hint = 4 /\ NoRemovals /\ Settled /\ inserts = 7) =>
       /\ AllFound
       /\ m_size > 7
       /\ \E i \in DOMAIN prime_tab : m_size = prime_tab[i]

\* The seventh element has been deposited in the table grown to 13 slots.
C10_Witness ==
  /\ hint = 4
  /\ NoRemovals
  /\ Settled
  /\ last = "deposit"
  /\ inserts = 7
  /\ m_size = 13
  /\ AllFound

\* The callback was called on each element of the table, once.
SeenIsLive(seen, entries, size) ==
  /\ {seen[i].elem : i \in 1..Len(seen)} =
       {entries[i] : i \in LiveSlots(entries, 0, size)}
  /\ Len(seen) = Cardinality(LiveSlots(entries, 0, size))

\* traverse is called on a table into which 10 elements were inserted and
\* from which 8 were then removed: 8 tombstones, 2 elements.
TraverseAfterChurn ==
  /\ last' = "traverse"
  /\ inserts = 10
  /\ removes = 8
  /\ m_n_deleted = 8
  /\ elements(Table) = 2

\* C11, as stated: traverse after 10 insertions and 8 removals calls the
\* callback on exactly the 2 elements left, and m_n_deleted is 0 when it
\* returns.
C11_TraversePurgesTombstones ==
  [][TraverseAfterChurn =>
       /\ fate' = "running"
       /\ Len(cb_seen') = 2
       /\ SeenIsLive(cb_seen', m_entries, m_size)
       /\ m_n_deleted' = 0]_vars

\* C11, amended: traverse after 10 insertions and 8 removals calls the
\* callback on exactly the 2 elements left; m_n_deleted is 0 when it
\* returns if the capacity exceeds 32, and still 8 if it does not.
C11_TraversePurgesAboveFloor ==
  [][TraverseAfterChurn =>
       /\ fate' = "running"
       /\ Len(cb_seen') = 2
       /\ SeenIsLive(cb_seen', m_entries, m_size)
       /\ m_n_deleted' = IF m_size > 32 THEN 0 ELSE 8]_vars

\* traverse has returned from a table of 61 slots with 8 tombstones and 2
\* elements, leaving no tombstone.
C11_Witness ==
  /\ last = "traverse"
  /\ hint = 40
  /\ expanded
  /\ inserts = 10
  /\ removes = 8
  /\ m_n_deleted = 0
  /\ Len(cb_seen) = 2
  /\ SeenIsLive(cb_seen, m_entries, m_size)

\* empty () has been called, on a table elements had been inserted into,
\* and no element has been removed since.
InsertedSinceEmpty ==
  Settled /\ removes = 0 /\ \E x \in Elems : life[x] = "out"

\* The elements the client has inserted so far.
Deposited == {x \in Elems : life[x] # "new"}

\* C12: after empty (), whatever elements and tombstones the table held,
\* and the insertion of N distinct elements, the table has N slots holding
\* an element, elements () is N and there is no tombstone.
C12_EmptyThenInsert ==
  InsertedSinceEmpty =>
    /\ Cardinality(LiveSlots(m_entries, 0, m_size)) = inserts
    /\ LiveElems = {x \in Elems : life[x] = "in"}
    /\ elements(Table) = inserts
    /\ m_n_deleted = 0
    /\ \A i \in DOMAIN m_entries : m_entries[i] # HTAB_DELETED_ENTRY

\* Three elements inserted after an empty () that followed two removals or
\* more (m_searches counts the insertions and the removals).
C12_Witness ==
  /\ InsertedSinceEmpty
  /\ inserts = 3
  /\ elements(Table) = 3
  /\ m_searches >= Cardinality(Deposited) + 2

\* C13: clear_slot on a handle outside the slot array, or on an empty slot
\* or a tombstone, aborts without a call of Descriptor::remove and without
\* changing a slot or a counter; on a slot holding an element it calls
\* Descriptor::remove once, on that element, makes the slot a tombstone
\* and increments m_n_deleted.
C13_ClearSlotAbortsOrRemoves ==
  [][last' = "clear_slot" =>
       LET slot == ret'
       IN IF HoldsElement(slot)
           THEN /\ fate' = "running"
                /\ remove_calls' =
                     [remove_calls EXCEPT ![m_entries[slot]] = @ + 1]
                /\ m_entries' =
                     [m_entries EXCEPT ![slot] = HTAB_DELETED_ENTRY]
                /\ m_n_deleted' = m_n_deleted + 1
                /\ UNCHANGED <<m_size, m_size_prime_index, m_n_elements>>
           ELSE /\ fate' = "aborted"
                /\ remove_calls' = remove_calls
                /\ UNCHANGED tvars]_vars

\* clear_slot has aborted on a tombstone of a table that also holds
\* elements.
C13_Witness ==
  /\ fate = "aborted"
  /\ last = "clear_slot"
  /\ ret \in 0..(m_size - 1)
  /\ m_entries[ret] = HTAB_DELETED_ENTRY
  /\ elements(Table) > 0

\* The slots holding an element, and the n-th of them in slot order.
LiveNow == LiveSlots(m_entries, 0, m_size)

NthLive(n) ==
  CHOOSE s \in LiveNow : Cardinality({u \in LiveNow : u < s}) = n - 1

\* C14: traverse_noresize, and traverse after the resize it may do, call
\* the callback on the elements of the slots holding one, in slot order,
\* each once, and on nothing else; no call follows one that returned
\* false; the scan ends before the last such slot only on a call that
\* returned false, so a callback that never does is called on every
\* element.
C14_TraverseInSlotOrderUntilFalse ==
  (fate = "running" /\ last \in {"traverse", "traverse_noresize"}) =>
    /\ Len(cb_seen) <= Cardinality(LiveNow)
    /\ \A i \in 1..Len(cb_seen) : cb_seen[i].elem = m_entries[NthLive(i)]
    /\ \A i \in 1..(Len(cb_seen) - 1) : cb_seen[i].go
    /\ Len(cb_seen) < Cardinality(LiveNow) =>
         (Len(cb_seen) >= 1 /\ ~cb_seen[Len(cb_seen)].go)

\* traverse_noresize has stopped on its second call, in a table with
\* tombstones and four elements or more.
C14_Witness ==
  /\ fate = "running"
  /\ last = "traverse_noresize"
  /\ Len(cb_seen) = 2
  /\ ~cb_seen[2].go
  /\ m_n_deleted >= 1
  /\ Cardinality(LiveNow) >= 4

\* C15: find_with_hash and find_slot_with_hash (NO_INSERT) return, expand
\* nothing, release nothing and leave the slots, the capacity, its index,
\* m_n_elements and m_n_deleted as they were; only m_searches and
\* m_collisions change.  find_slot_with_hash (NO_INSERT) returns NULL
\* exactly when the table holds no element equal to the key, and else the
\* slot holding it.
C15_LookupsReadOnly ==
  [][/\ last' \in {"find", "find_slot"} =>
          /\ fate' = "running"
          /\ ~expanded'
          /\ UNCHANGED <<m_entries, m_size, m_size_prime_index,
                         m_n_elements, m_n_deleted, life, remove_calls>>
          /\ m_searches' = m_searches + 1
          /\ m_collisions' >= m_collisions
     /\ \A x \in Elems :
          FindSlotLast(x) =>
            /\ ret' = NULL <=> x \notin LiveElems
            /\ ret' # NULL => m_entries[ret'] = x]_vars

\* find_slot_with_hash (NO_INSERT) has returned NULL from a table with
\* tombstones, after probing more than one slot, at a load at which an
\* insertion would expand.
C15_Witness ==
  /\ fate = "running"
  /\ last = "find_slot"
  /\ ret = NULL
  /\ m_n_deleted > 0
  /\ m_collisions > 0
  /\ insert_expands(Table, INSERT)


(***************************************************************************)
(* C16: after construction with size hint n the capacity is the smallest  *)
(* prime of the table that is >= n, every slot is Empty, the counters are *)
(* zero, and a find of any key, on the table as constructed, returns      *)
(* not-found.                                                              *)
(***************************************************************************)
C16_ConstructedEmpty ==
  /\ last = "ctor" =>
       /\ m_size = prime_tab[m_size_prime_index]
       /\ m_size >= hint
       /\ \A i \in DOMAIN prime_tab : prime_tab[i] >= hint => prime_tab[i] >= m_size
       /\ DOMAIN m_entries = 0..(m_size - 1)
       /\ \A i \in DOMAIN m_entries : m_entries[i] = HTAB_EMPTY_ENTRY
       /\ m_n_elements = 0
       /\ m_n_deleted = 0
       /\ m_searches = 0
       /\ m_collisions = 0
       /\ elements(Table) = 0
       /\ \A x \in Owned : NotFound(Table, x)
  /\ last = "find" /\ inserts = 0 => ret = HTAB_EMPTY_ENTRY

C16_Witness ==
  /\ last = "find"
  /\ inserts = 0
  /\ hint = 13
  /\ m_size = 13
  /\ m_searches = 1
  /\ ret = HTAB_EMPTY_ENTRY


(***************************************************************************)
(* C17: an iterator advanced past the last live slot becomes               *)
(* (NULL, NULL), which compares equal to end () and to a                   *)
(* default-constructed iterator, while one advanced from an earlier live  *)
(* slot stands on the next live slot; begin () equals end () exactly when *)
(* the table holds no live element.                                        *)
(***************************************************************************)
C17_ExhaustedIteratorIsEnd ==
  /\ [](~iterator_neq(begin(Table), end) <=> LiveElems = {})
  /\ [](last = "begin" => (~iterator_neq(iter, end) <=> elements(Table) = 0))
  /\ [][Len(visited') = Len(visited) + 1 =>
         LET live == LiveSlots(m_entries, 0, m_size)
             later == {i \in live : i > iter.m_slot}
         IN /\ iter.m_slot \in live
            /\ IF iter.m_slot = MaxOf(live)
                 THEN /\ iter'.m_slot = NULL
                      /\ iter'.m_limit = NULL
                      /\ ~iterator_neq(iter', end)
                      /\ ~iterator_neq(iter', iterator_default)
                 ELSE /\ iter'.m_slot = MinOf(later)
                      /\ iter'.m_limit = m_size
                      /\ iterator_neq(iter', end)]_vars

\* An iterator has been advanced past the last live slot of a table with
\* a tombstone, after it stood on two elements.
C17_Witness ==
  /\ last = "incr"
  /\ iterating
  /\ iter = [m_slot |-> NULL, m_limit |-> NULL]
  /\ Len(visited) = 2
  /\ m_n_deleted = 1


\* The hash values a probe is started with.
HashVals == 0..MaxHash

\* An object of the client that is never inserted: a probe for it stops
\* at an Empty slot only.
Stranger == ElemAddrs[Len(ElemAddrs)]

\* Every probe, of either lookup and either insert option, for key x from
\* hash value h returns.
ProbesReturn(x, h) ==
  /\ find_with_hash(Table, x, h).outcome = "ok"
  /\ find_slot_with_hash(Table, x, h, NO_INSERT).outcome = "ok"
  /\ find_slot_with_hash(Table, x, h, INSERT).outcome = "ok"

\* The slots that are not Empty.
NonEmptySlots == {i \in DOMAIN m_entries : m_entries[i] # HTAB_EMPTY_ENTRY}

(***************************************************************************)
(* C18: in every reachable state of a running table at least one slot is  *)
(* Empty, fewer than m_size slots are not, and the probe loops of          *)
(* find_with_hash and of find_slot_with_hash (either option) terminate    *)
(* for a key the table does not hold from every hash value, and for every *)
(* key of the client from its own hash; no call made has been left in its *)
(* loop.                                                                   *)
(***************************************************************************)
C18_ProbesTerminate ==
  /\ fate # "hung"
  /\ fate = "running" =>
       /\ \E i \in DOMAIN m_entries : m_entries[i] = HTAB_EMPTY_ENTRY
       /\ Cardinality(NonEmptySlots) < m_size
       /\ \A h \in HashVals : ProbesReturn(Stranger, h)
       /\ \A x \in Elems : ProbesReturn(x, Descriptor_hash(x))

\* A find has returned not-found from a table of capacity 7 with a single
\* Empty slot, elements and tombstones in the others, after probing four
\* slots or more.
C18_Witness ==
  /\ fate = "running"
  /\ last = "find"
  /\ ret = HTAB_EMPTY_ENTRY
  /\ m_size = 7
  /\ Cardinality(NonEmptySlots) = 6
  /\ m_n_deleted >= 2
  /\ m_collisions >= 3


\* The slots holding a tombstone.
TombstoneSlots == {i \in DOMAIN m_entries : m_entries[i] = HTAB_DELETED_ENTRY}

(***************************************************************************)
(* C19: between operations, every reserved slot deposited, the number of  *)
(* non-Empty slots is at most m_n_elements, the number of Tombstone slots *)
(* equals m_n_deleted, and m_n_deleted <= m_n_elements, so that           *)
(* elements () is not negative.                                            *)
(***************************************************************************)
C19_CountersBoundSlots ==
  Settled =>
    /\ Cardinality(NonEmptySlots) <= m_n_elements
    /\ Cardinality(TombstoneSlots) = m_n_deleted
    /\ m_n_deleted <= m_n_elements
    /\ elements(Table) >= 0

\* clear_slot has just turned an element into a tombstone, in a table that
\* has expanded and holds two tombstones or more beside its elements.
C19_Witness ==
  /\ Settled
  /\ last = "clear_slot"
  /\ HoldsElement(ret) = FALSE
  /\ m_size > 7
  /\ hint = 4
  /\ m_n_deleted >= 2
  /\ m_n_elements > m_n_deleted


\* The slots a probe of table t visits from index with stride hash2 when no
\* slot holds the key: all up to and including the first Empty one.
RECURSIVE ProbePath(_, _, _, _)
ProbePath(t, index, hash2, n) ==
  IF t.m_entries[index] = HTAB_EMPTY_ENTRY \/ n >= t.m_size
    THEN <<index>>
    ELSE <<index>> \o ProbePath(t, NextIndex(index, hash2, t.m_size), hash2, n + 1)

(***************************************************************************)
(* C20: find_slot_with_hash (INSERT) for a key the table does not hold,   *)
(* probing the table as it stands once the call has run expand if the     *)
(* load required it: if the probe path crosses a Tombstone before its     *)
(* Empty slot, the call returns the first Tombstone slot of the path,     *)
(* sets it Empty, decrements m_n_deleted and leaves m_n_elements          *)
(* unchanged; if the path crosses none, it returns the Empty slot ending  *)
(* the path, increments m_n_elements and leaves m_n_deleted and every     *)
(* slot unchanged.                                                         *)
(***************************************************************************)
C20_InsertReusesFirstTombstone ==
  [][reserved = NULL /\ reserved' # NULL /\ pending' \notin LiveElems =>
       LET t == IF insert_expands(Table, INSERT) THEN expand(Table).t ELSE Table
           hash == Descriptor_hash(pending')
           path == ProbePath(t, hash_table_mod1(hash, t.m_size_prime_index),
                             hash_table_mod2(hash, t.m_size_prime_index), 1)
           crossed == {k \in 1..Len(path) :
                         t.m_entries[path[k]] = HTAB_DELETED_ENTRY}
       IN /\ fate' = "running"
          /\ t.m_entries[path[Len(path)]] = HTAB_EMPTY_ENTRY
          /\ m_size' = t.m_size
          /\ IF crossed # {}
               THEN /\ ret' = path[MinOf(crossed)]
                    /\ m_entries' = [t.m_entries EXCEPT ![ret'] = HTAB_EMPTY_ENTRY]
                    /\ m_n_deleted' = t.m_n_deleted - 1
                    /\ m_n_elements' = t.m_n_elements
               ELSE /\ ret' = path[Len(path)]
                    /\ m_entries' = t.m_entries
                    /\ m_n_elements' = t.m_n_elements + 1
                    /\ m_n_deleted' = t.m_n_deleted]_vars

\* An insertion has been handed the slot of the only tombstone of a table
\* that has never expanded: one element was removed, no tombstone is left.
C20_Witness ==
  /\ Reserving
  /\ hint = 4
  /\ m_size = 7
  /\ removes = 1
  /\ m_n_deleted = 0
  /\ m_entries[ret] = HTAB_EMPTY_ENTRY
  /\ m_n_elements = Cardinality(NonEmptySlots) + 1
  /\ m_collisions >= 1


\* The smallest prime of the table that is >= n.
SmallestPrimeAtLeast(n) ==
  MinOf({prime_tab[i] : i \in {j \in DOMAIN prime_tab : prime_tab[j] >= n}})

(***************************************************************************)
(* C21: a call that runs expand on a table of capacity C with L live      *)
(* elements leaves the capacity at the smallest table prime >= 2L if      *)
(* 2L > C or (8L < C and C > 32); otherwise it leaves the capacity and    *)
(* the capacity-class index unchanged and only purges the tombstones.     *)
(* In either case the index is the one of the capacity.                   *)
(***************************************************************************)
C21_ExpandTargetCapacity ==
  [][expanded' /\ fate' = "running" =>
       LET L == m_n_elements - m_n_deleted
           C == m_size
       IN /\ m_size' = prime_tab[m_size_prime_index']
          /\ DOMAIN m_entries' = 0..(m_size' - 1)
          /\ IF 2 * L > C \/ (8 * L < C /\ C > 32)
               THEN m_size' = SmallestPrimeAtLeast(2 * L)
               ELSE /\ m_size' = C
                    /\ m_size_prime_index' = m_size_prime_index
                    /\ m_n_deleted' = 0
                    /\ \A i \in DOMAIN m_entries' :
                         m_entries'[i] # HTAB_DELETED_ENTRY]_vars

\* A traverse has shrunk a table of capacity 61 holding elements.
C21_Witness ==
  /\ fate = "running"
  /\ expanded
  /\ last = "traverse"
  /\ hint = 40
  /\ m_size = 7
  /\ m_n_elements - m_n_deleted >= 2


\* The number of slots of entries holding x.
CountIn(entries, x) == Cardinality({i \in DOMAIN entries : entries[i] = x})

\* The number of slots of entries holding an element.
Occupied(entries) == Cardinality({i \in DOMAIN entries : IsLive(entries[i])})

(***************************************************************************)
(* C22: expand keeps the live contents: every element is held by as many  *)
(* slots after as before, elements () is unchanged, and m_n_elements      *)
(* afterwards is the number of Occupied slots, the old m_n_elements less  *)
(* the tombstones purged.  Stated of expand applied to the table of the   *)
(* call that runs it, and of the call: a traverse ends with exactly that  *)
(* table, an insertion with that table and, for a new key, one slot       *)
(* reserved, counted and still Empty.                                      *)
(***************************************************************************)
C22_ExpandPreservesLive ==
  [][expanded' /\ fate' = "running" =>
       LET e == expand(Table).t
       IN /\ \A x \in Owned : CountIn(e.m_entries, x) = CountIn(m_entries, x)
          /\ Occupied(e.m_entries) = Occupied(m_entries)
          /\ elements(e) = elements(Table)
          /\ e.m_n_elements = Occupied(e.m_entries)
          /\ e.m_n_elements = m_n_elements - m_n_deleted
          /\ e.m_n_deleted = 0
          /\ m_entries' = e.m_entries
          /\ m_n_deleted' = 0
          /\ m_n_elements' =
               IF last' = "find_slot_insert" /\ pending' \notin LiveElems
                 THEN e.m_n_elements + 1 ELSE e.m_n_elements]_vars

\* An insertion has expanded a table of capacity 7 holding tombstones into
\* one of capacity 13.
C22_Witness ==
  /\ Reserving
  /\ expanded
  /\ hint = 4
  /\ m_size = 13
  /\ removes >= 1
  /\ m_n_deleted = 0
  /\ Occupied(m_entries) >= 5


(***************************************************************************)
(* C23: traverse runs expand before scanning exactly when                  *)
(* elements () * 8 < capacity and capacity > 32: it then scans the        *)
(* expanded table, and otherwise leaves every slot, the capacity, its     *)
(* index and all counters unchanged.  traverse_noresize never resizes and *)
(* leaves all of them unchanged.  (The callback does not mutate the       *)
(* table.)                                                                 *)
(***************************************************************************)
C23_TraverseExpandsIffSparse ==
  [][/\ last' = "traverse" =>
          LET sparse == (m_n_elements - m_n_deleted) * 8 < m_size /\ m_size > 32
              e == expand(Table).t
          IN /\ fate' = "running"
             /\ expanded' <=> sparse
             /\ IF sparse
                  THEN /\ m_entries' = e.m_entries
                       /\ m_size' = e.m_size
                       /\ m_size' < m_size
                       /\ m_size_prime_index' = e.m_size_prime_index
                       /\ m_n_elements' = m_n_elements - m_n_deleted
                       /\ m_n_deleted' = 0
                       /\ UNCHANGED <<m_searches, m_collisions>>
                  ELSE UNCHANGED tvars
     /\ last' = "traverse_noresize" =>
          /\ fate' = "running"
          /\ ~expanded'
          /\ UNCHANGED tvars]_vars

\* A traverse has shrunk a table of capacity 61 from which elements were
\* removed, and has called back on what is left.
C23_Witness ==
  /\ fate = "running"
  /\ last = "traverse"
  /\ expanded
  /\ hint = 40
  /\ m_size < 61
  /\ removes >= 2
  /\ Len(cb_seen) >= 2


\* empty () applied to table t gives a table of capacity nsize and index
\* nindex with every slot Empty and both counters 0, in which no key is
\* found.
EmptiedTo(t, nsize, nindex) ==
  LET fresh == [m_entries |-> [i \in 0..(nsize - 1) |-> HTAB_EMPTY_ENTRY],
                m_size |-> nsize,
                m_n_elements |-> 0,
                m_n_deleted |-> 0,
                m_searches |-> t.m_searches,
                m_collisions |-> t.m_collisions,
                m_size_prime_index |-> nindex]
  IN /\ empty(t).t = fresh
     /\ prime_tab[nindex] = nsize
     /\ \A x \in Owned : NotFound(fresh, x)

(***************************************************************************)
(* C24: after empty () every slot is Empty, m_n_elements and m_n_deleted  *)
(* are 0 and find_with_hash returns not-found for every key; the capacity *)
(* is unchanged, with its index, if it was at most                         *)
(* 1024*1024 / sizeof (PTR), and is otherwise the smallest table prime    *)
(* >= 1024 / sizeof (PTR); the index names the capacity.  The tables the  *)
(* client fills are below the threshold; above it empty () is applied to  *)
(* the table as constructed with the hint LargeHint, whose capacity       *)
(* 262139 becomes 251.                                                     *)
(***************************************************************************)
C24_EmptyResets ==
  /\ [][last' = "empty" =>
          /\ fate' = "running"
          /\ DOMAIN m_entries' = 0..(m_size' - 1)
          /\ \A i \in DOMAIN m_entries' : m_entries'[i] = HTAB_EMPTY_ENTRY
          /\ m_n_elements' = 0
          /\ m_n_deleted' = 0
          /\ \A x \in Owned : NotFound(Table', x)
          /\ m_size' = prime_tab[m_size_prime_index']
          /\ IF m_size > (1024 * 1024) \div 8
               THEN m_size' = SmallestPrimeAtLeast(1024 \div 8)
               ELSE /\ m_size' = m_size
                    /\ m_size_prime_index' = m_size_prime_index]_vars
  /\ [](last = "ctor" /\ hint = 4 =>
          \A large \in {hash_table_ctor(LargeHint)} :
            /\ large.m_size > (1024 * 1024) \div 8
            /\ EmptiedTo(large, SmallestPrimeAtLeast(1024 \div 8),
                         hash_table_higher_prime_index(1024 \div 8)))

\* empty () has reset a table of capacity 13; six elements or more have
\* left the table, five or more through Descriptor::remove.
C24_Witness ==
  /\ fate = "running"
  /\ last = "empty"
  /\ m_size = 13
  /\ m_n_elements = 0
  /\ Cardinality({x \in Elems : remove_calls[x] = 1}) >= 5
  /\ removes = 0
  /\ Cardinality({x \in Elems : life[x] = "out"}) >= 6


(***************************************************************************)
(* C25: the abort of find_empty_slot_for_expand is not reached by any     *)
(* sequence of insertions, removals and traversals, and every             *)
(* re-insertion of expand ends at an Empty slot: no call has aborted or   *)
(* been left in a loop, and expand run on the table of any reachable      *)
(* state returns, into an array whose capacity is greater than the number *)
(* of elements re-inserted and which holds no tombstone.                  *)
(***************************************************************************)
C25_ExpandNeverAborts ==
  /\ fate = "running"
  /\ LET e == expand(Table)
     IN /\ e.outcome = "ok"
        /\ e.t.m_size > elements(Table)
        /\ e.t.m_size > Occupied(m_entries)
        /\ Occupied(e.t.m_entries) = Occupied(m_entries)
        /\ \A i \in DOMAIN e.t.m_entries :
             e.t.m_entries[i] # HTAB_DELETED_ENTRY

\* An insertion has expanded a full-loaded table of capacity 7, without
\* tombstones, into one of capacity 13, re-inserting six elements.
C25_Witness ==
  /\ Reserving
  /\ expanded
  /\ NoRemovals
  /\ hint = 4
  /\ m_size = 13
  /\ m_n_elements = 7
  /\ Occupied(m_entries) = 6


(***************************************************************************)
(* C26: remove_elt_with_hash of a key the table holds turns the slot of   *)
(* that key, the only one holding it, into a Tombstone and increments     *)
(* m_n_deleted; every other slot, the capacity, its index and             *)
(* m_n_elements are unchanged.  (Of the members left, m_searches grows by *)
(* one and m_collisions by the collisions of the lookup.)                 *)
(***************************************************************************)
C26_RemoveTouchesOneSlot ==
  [][last' = "remove_elt" /\ m_searches' # m_searches =>
       \E k \in Elems :
         /\ life[k] = "in"
         /\ life'[k] = "out"
         /\ CountIn(m_entries, k) = 1
         /\ \A slot \in DOMAIN m_entries :
              m_entries[slot] = k =>
                m_entries' = [m_entries EXCEPT ![slot] = HTAB_DELETED_ENTRY]
         /\ m_n_deleted' = m_n_deleted + 1
         /\ UNCHANGED <<m_size, m_size_prime_index, m_n_elements>>
         /\ fate' = "running"
         /\ ~expanded'
         /\ m_searches' = m_searches + 1
         /\ m_collisions' >= m_collisions]_vars

\* A key has been removed, after a lookup with a collision, from a table of
\* capacity 7 with six non-Empty slots, which an insertion would expand.
C26_Witness ==
  /\ fate = "running"
  /\ last = "remove_elt"
  /\ m_size = 7
  /\ m_n_elements = 6
  /\ m_n_deleted >= 1
  /\ m_collisions >= 1
  /\ insert_expands(Table, INSERT)


(***************************************************************************)
(* C27: with the client depositing only into the Empty slot an insertion  *)
(* returned, no two Occupied slots hold policy-equal elements; and        *)
(* find_slot_with_hash (INSERT) for a key the table holds returns the     *)
(* slot holding it, whether or not a Tombstone lies earlier on the probe  *)
(* path, with elements () unchanged and, unless the call expanded the     *)
(* table first, no slot and no counter of slots changed.                  *)
(***************************************************************************)
C27_NoEqualElementsTwice ==
  /\ [](\A i, j \in DOMAIN m_entries :
          (/\ IsLive(m_entries[i])
           /\ IsLive(m_entries[j])
           /\ Descriptor_equal(m_entries[i], m_entries[j])) => i = j)
  /\ [][last' = "find_slot_insert" /\ m_searches' # m_searches
           /\ pending' \in LiveElems =>
          /\ fate' = "running"
          /\ ret' \in DOMAIN m_entries'
          /\ m_entries'[ret'] = pending'
          /\ Descriptor_equal(m_entries'[ret'], pending')
          /\ elements(Table') = elements(Table)
          /\ \A x \in Owned : CountIn(m_entries', x) = CountIn(m_entries, x)
          /\ ~expanded' =>
               UNCHANGED <<m_entries, m_size, m_size_prime_index,
                           m_n_elements, m_n_deleted>>]_vars

\* An insertion of a key the table holds has returned the key's slot, past
\* the tombstone at the first index of its probe path.
C27_Witness ==
  /\ fate = "running"
  /\ last = "find_slot_insert"
  /\ ~expanded
  /\ pending \in LiveElems
  /\ m_entries[ret] = pending
  /\ m_entries[hash_table_mod1(Descriptor_hash(pending), m_size_prime_index)]
       = HTAB_DELETED_ENTRY


\* The indices a probe for an absent key from hash value h visits in the
\* table of the state.
ProbeIndices(h) ==
  LET path == ProbePath(Table, hash_table_mod1(h, m_size_prime_index),
                        hash_table_mod2(h, m_size_prime_index), 1)
  IN {path[k] : k \in 1..Len(path)}

(***************************************************************************)
(* C28: the probes index the slot array within [0, m_size).  In every     *)
(* state the first index and the stride of every client key are in        *)
(* [0, m_size) and [1, m_size - 1] and so is every index its probe        *)
(* visits; and whenever the capacity has just been set, by the            *)
(* constructor or by an expand, mod1 is below the capacity and mod2 in    *)
(* [1, m_size - 1] for hash values covering every residue, and the step   *)
(* index += stride; if (index >= size) index -= size takes every index    *)
(* below the capacity, with every such stride, to the index congruent to  *)
(* their sum below the capacity.                                           *)
(***************************************************************************)
C28_ProbeIndicesInRange ==
  /\ m_size = prime_tab[m_size_prime_index]
  /\ DOMAIN m_entries = 0..(m_size - 1)
  /\ \A x \in Owned :
       /\ hash_table_mod1(Descriptor_hash(x), m_size_prime_index) \in 0..(m_size - 1)
       /\ hash_table_mod2(Descriptor_hash(x), m_size_prime_index) \in 1..(m_size - 1)
       /\ ProbeIndices(Descriptor_hash(x)) \subseteq 0..(m_size - 1)
  /\ (last = "ctor" \/ expanded) =>
       /\ \A h \in 0..(2 * m_size) :
            /\ hash_table_mod1(h, m_size_prime_index) \in 0..(m_size - 1)
            /\ hash_table_mod2(h, m_size_prime_index) \in 1..(m_size - 1)
       /\ \A index \in 0..(m_size - 1) : \A hash2 \in 1..(m_size - 1) :
            /\ NextIndex(index, hash2, m_size) \in 0..(m_size - 1)
            /\ NextIndex(index, hash2, m_size) = (index + hash2) % m_size

\* An insertion has expanded a table of capacity 7 into one of capacity
\* 13, where the re-insertion probed past the first index of an element,
\* and has been given a slot of the new array.
C28_Witness ==
  /\ fate = "running"
  /\ last = "find_slot_insert"
  /\ expanded
  /\ hint = 7
  /\ m_size = 13
  /\ ret \in 0..12
  /\ \E i \in DOMAIN m_entries :
       /\ IsLive(m_entries[i])
       /\ hash_table_mod1(Descriptor_hash(m_entries[i]), m_size_prime_index) # i

================================================================================
